---------------------------- MODULE Spec2Model ----------------------------
(***************************************************************************)
(* HattrickData: src/server.py.  A FastAPI service over one SQLite file    *)
(* with two tables, players and player_stats, and two handlers:            *)
(*   save_player      POST /players/{player_id}                            *)
(*   get_all_players  GET  /players?player_id=&date=                       *)
(* Texts whose characters matter (dates, stored JSON) are sequences of     *)
(* one-character strings; the conversions strptime, strftime, json.dumps   *)
(* and json.loads are computed on those sequences.                         *)
(***************************************************************************)
EXTENDS Integers, Sequences, FiniteSets, TLC

VARIABLES
    players,    \* the rows of table players
    stats,      \* the rows of table player_stats, in rowid order
    openConns,  \* the connections opened and not closed
    resp,       \* the response of the last call that returned
    build,      \* the libraries the service runs on
    tx,         \* the Save in progress, statement by statement (SpecTx)
    hist        \* the Saves that returned the success message, in order

vars == <<players, stats, openConns, resp, build, tx, hist>>

---------------------------------------------------------------------------
(* Bounds of the model *)

\* number of player_stats rows the store may hold
MaxStats == 2
\* number of connections that may be left open
MaxOpenConns == 1

---------------------------------------------------------------------------
(* Characters and texts *)

\* the characters used, in code-point order (SQLite compares TEXT bytewise)
Alphabet == <<" ", "-", "/", "0", "1", "2", "3", "4", "5", "6", "7", "8", "9", "x">>

\* the place of each character in that order
OrdTable == [c \in {Alphabet[i] : i \in 1..Len(Alphabet)} |->
                CHOOSE i \in 1..Len(Alphabet) : Alphabet[i] = c]

Ord(c) == OrdTable[c]

IsDigit(c) == Ord(c) >= Ord("0") /\ Ord(c) <= Ord("9")

DigitVal(c) == Ord(c) - Ord("0")

DigitChar(n) == Alphabet[Ord("0") + n]

AllDigits(t) == \A i \in 1..Len(t) : IsDigit(t[i])

RECURSIVE NumVal(_)
NumVal(t) == IF t = <<>> THEN 0
             ELSE 10 * NumVal(SubSeq(t, 1, Len(t) - 1)) + DigitVal(t[Len(t)])

RECURSIVE Decimal(_)
Decimal(n) == IF n < 10 THEN <<DigitChar(n)>>
              ELSE Decimal(n \div 10) \o <<DigitChar(n % 10)>>

RECURSIVE ZeroPad(_, _)
ZeroPad(t, w) == IF Len(t) >= w THEN t ELSE ZeroPad(<<"0">> \o t, w)

\* bytewise comparison of two TEXT values: a < b
RECURSIVE TextLess(_, _)
TextLess(a, b) ==
    IF b = <<>> THEN FALSE
    ELSE IF a = <<>> THEN TRUE
    ELSE IF a[1] # b[1] THEN Ord(a[1]) < Ord(b[1])
    ELSE TextLess(Tail(a), Tail(b))

---------------------------------------------------------------------------
(* Calendar dates: datetime.strptime and datetime.strftime *)

NoDate == [ok |-> FALSE, y |-> 0, m |-> 0, d |-> 0]

IsLeap(y) == (y % 4 = 0 /\ y % 100 # 0) \/ y % 400 = 0

DaysIn(m, y) == IF m = 2 THEN (IF IsLeap(y) THEN 29 ELSE 28)
                ELSE IF m \in {4, 6, 9, 11} THEN 30 ELSE 31

\* the indexes of the separator in a text
SepAt(t, sep) == {i \in 1..Len(t) : t[i] = sep}

\* %d: 3[0-1] | [1-2]\d | 0[1-9] | [1-9] | " "[1-9]
DayField(f) ==
    \/ Len(f) \in {1, 2} /\ AllDigits(f) /\ NumVal(f) \in 1..31
    \/ Len(f) = 2 /\ f[1] = " " /\ IsDigit(f[2]) /\ DigitVal(f[2]) >= 1

DayVal(f) == IF f[1] = " " THEN DigitVal(f[2]) ELSE NumVal(f)

\* %m: 1[0-2] | 0[1-9] | [1-9]
MonthField(f) == Len(f) \in {1, 2} /\ AllDigits(f) /\ NumVal(f) \in 1..12

\* %Y: \d\d\d\d ; datetime refuses year 0
YearField(f) == Len(f) = 4 /\ AllDigits(f) /\ NumVal(f) >= 1

Calendar(y, m, d) ==
    IF d <= DaysIn(m, y) THEN [ok |-> TRUE, y |-> y, m |-> m, d |-> d] ELSE NoDate

\* datetime.strptime(t, "%d/%m/%Y"); ok = FALSE stands for the ValueError
StrptimeDMY(t) ==
    LET s == SepAt(t, "/") IN
    IF Cardinality(s) # 2 THEN NoDate
    ELSE LET i == CHOOSE a \in s : \A b \in s : a <= b
             j == CHOOSE a \in s : \A b \in s : a >= b
             df == SubSeq(t, 1, i - 1)
             mf == SubSeq(t, i + 1, j - 1)
             yf == SubSeq(t, j + 1, Len(t))
         IN IF DayField(df) /\ MonthField(mf) /\ YearField(yf)
            THEN Calendar(NumVal(yf), NumVal(mf), DayVal(df))
            ELSE NoDate

\* datetime.strptime(t, "%Y-%m-%d")
StrptimeYMD(t) ==
    LET s == SepAt(t, "-") IN
    IF Cardinality(s) # 2 THEN NoDate
    ELSE LET i == CHOOSE a \in s : \A b \in s : a <= b
             j == CHOOSE a \in s : \A b \in s : a >= b
             yf == SubSeq(t, 1, i - 1)
             mf == SubSeq(t, i + 1, j - 1)
             df == SubSeq(t, j + 1, Len(t))
         IN IF DayField(df) /\ MonthField(mf) /\ YearField(yf)
            THEN Calendar(NumVal(yf), NumVal(mf), DayVal(df))
            ELSE NoDate

\* %Y of strftime: the C library's; glibc writes the year without leading
\* zeros, other platforms (and CPython from 3.13 on) pad it to four digits
YearText(y, padYear) == IF padYear THEN ZeroPad(Decimal(y), 4) ELSE Decimal(y)

\* dt.strftime("%Y-%m-%d")
StrftimeYMD(dt, padYear) ==
    YearText(dt.y, padYear) \o <<"-">> \o ZeroPad(Decimal(dt.m), 2)
        \o <<"-">> \o ZeroPad(Decimal(dt.d), 2)

\* dt.strftime("%d/%m/%Y")
StrftimeDMY(dt, padYear) ==
    ZeroPad(Decimal(dt.d), 2) \o <<"/">> \o ZeroPad(Decimal(dt.m), 2)
        \o <<"/">> \o YearText(dt.y, padYear)

---------------------------------------------------------------------------
(* JSON texts of the skills mapping: json.dumps and json.loads.  A JSON    *)
(* text is a sequence of tokens: the punctuation, a quoted key, a digit.   *)

Keys == <<"pace", "passing">>

Quoted == [k \in {"pace", "passing"} |->
             IF k = "pace" THEN "\"pace\"" ELSE "\"passing\""]

IsQuoted(tok) == \E k \in DOMAIN Quoted : Quoted[k] = tok

Unquote(tok) == CHOOSE k \in DOMAIN Quoted : Quoted[k] = tok

EmptyMap == [k \in {} |-> 0]

RECURSIVE DumpMembers(_, _)
DumpMembers(map, i) ==
    IF i > Len(Keys) THEN <<>>
    ELSE LET rest == DumpMembers(map, i + 1)
             k == Keys[i]
         IN IF k \notin DOMAIN map THEN rest
            ELSE <<Quoted[k], ":">> \o Decimal(map[k])
                     \o (IF rest = <<>> THEN <<>> ELSE <<",">> \o rest)

\* json.dumps(map)
Dumps(map) == <<"{">> \o DumpMembers(map, 1) \o <<"}">>

NoJson == [ok |-> FALSE, isMap |-> FALSE, map |-> EmptyMap]

RECURSIVE DigitRun(_)
DigitRun(t) == IF t # <<>> /\ t[1] \in {"0", "1", "2", "3", "4", "5", "6", "7", "8", "9"}
               THEN 1 + DigitRun(Tail(t)) ELSE 0

\* a JSON number: digits, no leading zero
IsNumber(t) == Len(t) >= 1 /\ DigitRun(t) = Len(t) /\ (Len(t) > 1 => t[1] # "0")

\* the members of an object, after "{" and before "}"; a repeated key keeps
\* its last value
RECURSIVE LoadMembers(_)
LoadMembers(t) ==
    IF Len(t) < 3 \/ ~IsQuoted(t[1]) \/ t[2] # ":" THEN NoJson
    ELSE LET n == DigitRun(SubSeq(t, 3, Len(t)))
             num == SubSeq(t, 3, 2 + n)
             after == SubSeq(t, 3 + n, Len(t))
             one == (Unquote(t[1]) :> NumVal(num))
         IN IF ~IsNumber(num) THEN NoJson
            ELSE IF after = <<>> THEN [ok |-> TRUE, isMap |-> TRUE, map |-> one]
            ELSE IF after[1] # "," THEN NoJson
            ELSE LET more == LoadMembers(Tail(after))
                 IN IF more.ok
                    THEN [ok |-> TRUE, isMap |-> TRUE, map |-> more.map @@ one]
                    ELSE NoJson

\* json.loads(t): ok = FALSE stands for the JSONDecodeError; a text that
\* decodes to a number is ok but no mapping
Loads(t) ==
    IF IsNumber(t) THEN [ok |-> TRUE, isMap |-> FALSE, map |-> EmptyMap]
    ELSE IF Len(t) < 2 \/ t[1] # "{" \/ t[Len(t)] # "}" THEN NoJson
    ELSE IF Len(t) = 2 THEN [ok |-> TRUE, isMap |-> TRUE, map |-> EmptyMap]
    ELSE LoadMembers(SubSeq(t, 2, Len(t) - 1))

---------------------------------------------------------------------------
(* Inputs of the calls *)

Ids == {"p1", "p2"}

\* name and specialties as a body gives them
Profiles == {[name |-> "Ann", specialties |-> "Quick", age |-> "17"],
             [name |-> "Bob", specialties |-> "Head", age |-> "18"]}

Map(m) == [isStr |-> FALSE, map |-> m, str |-> <<>>]

Str(t) == [isStr |-> TRUE, map |-> EmptyMap, str |-> t]

\* skills values that decode to a mapping: a mapping, and one as a string
GoodSkills == {Map(("pace" :> 6) @@ ("passing" :> 12)),
               Str(Dumps(("pace" :> 6) @@ ("passing" :> 12)))}

MoreSkills == {Map(("pace" :> 7))}

\* strings that are no JSON object: one cut short, and a bare number
BadSkills == {Str(<<"{", "\"pace\"">>), Str(<<"7">>)}

Text(t) == [isNull |-> FALSE, text |-> t]

Null == [isNull |-> TRUE, text |-> <<>>]

\* DD/MM/YYYY texts of calendar dates
ValidDates ==
    { <<"0", "5", "/", "0", "3", "/", "2", "0", "2", "4">>,
      <<"2", "9", "/", "0", "2", "/", "2", "0", "2", "4">>,
      <<"0", "1", "/", "0", "1", "/", "0", "9", "9", "9">> }

\* a date strptime accepts although it is written D/M/YYYY
LooseDates == { <<"5", "/", "3", "/", "2", "0", "2", "4">> }

\* texts strptime refuses: year first, an impossible day, no date at all
BadDates ==
    { <<"2", "0", "2", "4", "-", "0", "3", "-", "0", "5">>,
      <<"3", "1", "/", "0", "2", "/", "2", "0", "2", "4">>,
      <<"x">> }

Fields == {"name", "age", "TSI", "salary", "specialties", "form", "fitness",
           "skills", "date"}

Body(keys, profile, skills, date) ==
    [keys |-> keys, name |-> profile.name, age |-> profile.age, TSI |-> "1200",
     salary |-> "350", specialties |-> profile.specialties, form |-> "6",
     fitness |-> "8", skills |-> skills, date |-> date]

AnyOf(S) == CHOOSE x \in S : TRUE

\* the JSON bodies of a Save: two players' data with a mapping for skills
\* and a date; bodies whose skills string is no JSON object; a body without
\* a name
Bodies ==
    {Body(Fields, p, Map(("pace" :> 6) @@ ("passing" :> 12)),
          Text(<<"0", "5", "/", "0", "3", "/", "2", "0", "2", "4">>)) : p \in Profiles}
    \cup {Body(Fields, AnyOf(Profiles), s,
               Text(<<"0", "5", "/", "0", "3", "/", "2", "0", "2", "4">>)) : s \in BadSkills}
    \cup {Body(Fields \ {"name"}, AnyOf(Profiles), AnyOf(GoodSkills), Null)}

\* more bodies: every date text, null and no date key, another mapping
WideBodies ==
    {Body(Fields, AnyOf(Profiles), s, Text(d)) :
        s \in GoodSkills \cup MoreSkills, d \in ValidDates \cup LooseDates}
    \cup {Body(Fields, AnyOf(Profiles), AnyOf(GoodSkills), d) :
             d \in {Text(t) : t \in BadDates} \cup {Null}}
    \cup {Body(Fields \ {"date"}, AnyOf(Profiles), AnyOf(GoodSkills), Null)}
    \cup {Body(Fields, AnyOf(Profiles), s, Text(AnyOf(ValidDates))) : s \in BadSkills}

\* datetime.now()
Clock == {[ok |-> TRUE, y |-> 2025, m |-> 6, d |-> 15]}

\* sqlite3 errors a Save may meet: none, or one raised by a statement
Faults == {"none", "upsert", "insert", "commit"}

\* a query parameter: absent, or a string (the empty one included)
Absent == [given |-> FALSE, val |-> ""]

IdParams == {Absent} \cup {[given |-> TRUE, val |-> v] : v \in Ids \cup {""}}

NoDateParam == [given |-> FALSE, text |-> <<>>]

DateParam(t) == [given |-> TRUE, text |-> t]

DateParams ==
    {NoDateParam}
    \cup {DateParam(t) : t \in { <<"0", "5", "/", "0", "3", "/", "2", "0", "2", "4">>, <<"x">> }}

WideDateParams ==
    {NoDateParam}
    \cup {DateParam(t) : t \in ValidDates \cup LooseDates \cup BadDates \cup {<<>>}}

\* what the installed libraries may be: pydantic 1 or 2, and a strftime that
\* pads the year or does not
Builds == [pydantic : {1, 2}, padYear : BOOLEAN]

---------------------------------------------------------------------------
(* The conversions, tabulated once over the texts and dates that occur     *)

InputDates == ValidDates \cup LooseDates \cup BadDates \cup {<<>>}

StrptimeTable == [t \in InputDates |-> StrptimeDMY(t)]

strptime_dmy(t) == IF t \in InputDates THEN StrptimeTable[t] ELSE StrptimeDMY(t)

KnownDates == {StrptimeTable[t] : t \in {u \in InputDates : StrptimeTable[u].ok}}
              \cup Clock

YmdTable == [pad \in BOOLEAN |-> [dt \in KnownDates |-> StrftimeYMD(dt, pad)]]

strftime_ymd(dt, pad) ==
    IF dt \in KnownDates THEN YmdTable[pad][dt] ELSE StrftimeYMD(dt, pad)

InputMaps == {v.map : v \in GoodSkills \cup MoreSkills}

DumpsTable == [m \in InputMaps |-> Dumps(m)]

json_dumps(m) == IF m \in InputMaps THEN DumpsTable[m] ELSE Dumps(m)

InputTexts == {v.str : v \in GoodSkills \cup BadSkills}
              \cup {DumpsTable[m] : m \in InputMaps}

LoadsTable == [t \in InputTexts |-> Loads(t)]

json_loads(t) == IF t \in InputTexts THEN LoadsTable[t] ELSE Loads(t)

---------------------------------------------------------------------------
(* The two tables.  players is a set of rows, player_stats a sequence of   *)
(* rows in rowid order.                                                    *)

\* INSERT OR IGNORE: a row that exists keeps its name and specialties
UpsertIgnore(pl, id, name, specialties) ==
    IF \E r \in pl : r.id = id THEN pl
    ELSE pl \cup {[id |-> id, name |-> name, specialties |-> specialties]}

\* UPDATE players SET ... WHERE id = ?: no row is made for a new identity
UpsertUpdateOnly(pl, id, name, specialties) ==
    {IF r.id = id THEN [id |-> id, name |-> name, specialties |-> specialties] ELSE r :
        r \in pl}

\* INSERT INTO players ... ON CONFLICT(id) DO UPDATE SET name, specialties
Upsert(pl, id, name, specialties) ==
    {r \in pl : r.id # id}
        \cup {[id |-> id, name |-> name, specialties |-> specialties]}

\* INSERT OR REPLACE keyed by player and date: the snapshot of that player
\* and date is replaced
InsertReplace(st, row) ==
    IF \E i \in 1..Len(st) : st[i].player_id = row.player_id /\ st[i].date = row.date
    THEN [i \in 1..Len(st) |->
             IF st[i].player_id = row.player_id /\ st[i].date = row.date
             THEN row ELSE st[i]]
    ELSE Append(st, row)

\* INSERT INTO player_stats ...
Insert(st, row) == Append(st, row)

\* sqlite3.connect: a connection's view of the store
Connect(pl, st) == [players |-> pl, stats |-> st, committed |-> FALSE, open |-> TRUE]

\* conn.commit()
Commit(conn) == [conn EXCEPT !.committed = TRUE]

\* conn.close()
Close(conn) == [conn EXCEPT !.open = FALSE]

\* a connection in autocommit mode: every statement is in the file at once
DurableAutocommit(conn, pl, st) == [players |-> conn.players, stats |-> conn.stats]

\* what the file holds once the connection is gone: its writes if it
\* committed them, and the store as it was if it did not
Durable(conn, pl, st) ==
    IF conn.committed THEN [players |-> conn.players, stats |-> conn.stats]
    ELSE [players |-> pl, stats |-> st]

Leaked(conn) == IF conn.open THEN 1 ELSE 0

---------------------------------------------------------------------------
(* save_player *)

Message(op, text) == [op |-> op, kind |-> "message", text |-> text, rows |-> <<>>]

Error(op, text) == [op |-> op, kind |-> "error", text |-> text, rows |-> <<>>]

\* a string that does not decode is taken for an empty mapping
DecodedSkillsLenient(body) ==
    IF "skills" \in body.keys /\ body.skills.isStr
    THEN (IF json_loads(body.skills.str).isMap THEN json_loads(body.skills.str)
          ELSE [ok |-> TRUE, isMap |-> TRUE, map |-> EmptyMap])
    ELSE [ok |-> TRUE, isMap |-> ~body.skills.isStr, map |-> body.skills.map]

\* the skills of a body after the json.loads of a string value
DecodedSkills(body) ==
    IF "skills" \in body.keys /\ body.skills.isStr THEN json_loads(body.skills.str)
    ELSE [ok |-> TRUE, isMap |-> ~body.skills.isStr, map |-> body.skills.map]

\* the fields Player(**player_data) requires; pydantic 2 requires an
\* Optional field without a default, pydantic 1 defaults it to None
Required(bld) == IF bld.pydantic = 2 THEN Fields ELSE Fields \ {"date"}

\* Player(**player_data) raises no ValidationError
Player(body, bld) == Required(bld) \subseteq body.keys /\ DecodedSkills(body).isMap

\* iso_date: the date of the body as YYYY-MM-DD, or today's
IsoDate(body, now, bld) ==
    LET dt == IF "date" \in body.keys /\ ~body.date.isNull
              THEN strptime_dmy(body.date.text) ELSE NoDate
    IN strftime_ymd(IF dt.ok THEN dt ELSE now, bld.padYear)

StatsRow(player_id, body, now, bld) ==
    [player_id |-> player_id, TSI |-> body.TSI, salary |-> body.salary,
     fitness |-> body.fitness, form |-> body.form,
     skills |-> json_dumps(DecodedSkills(body).map),
     date |-> IsoDate(body, now, bld), age |-> body.age]

\* the statements between connect and close; fault names the one that raises
Transaction(conn, player_id, body, now, fault, bld) ==
    LET c1 == [conn EXCEPT !.players =
                   Upsert(conn.players, player_id, body.name, body.specialties)]
        c2 == [c1 EXCEPT !.stats =
                   Insert(c1.stats, StatsRow(player_id, body, now, bld))]
    IN IF fault = "upsert" THEN conn
       ELSE IF fault = "insert" THEN c1
       ELSE IF fault = "commit" THEN c2
       ELSE Commit(c2)

\* the whole handler: the store it leaves, the response, the connections it
\* leaves open
SavePlayer(pl, st, player_id, body, now, fault, bld) ==
    IF ~DecodedSkills(body).ok
    THEN [players |-> pl, stats |-> st, leaked |-> 0,
          resp |-> Error("save", "Invalid JSON in skills")]
    ELSE IF ~Player(body, bld)
    THEN [players |-> pl, stats |-> st, leaked |-> 0,
          resp |-> Error("save", "validation error")]
    ELSE LET conn == Close(Transaction(Connect(pl, st), player_id, body, now, fault, bld))
             after == Durable(conn, pl, st)
         IN [players |-> after.players, stats |-> after.stats, leaked |-> Leaked(conn),
             resp |-> IF conn.committed THEN Message("save", body.name)
                      ELSE Error("save", "sqlite3 error")]

---------------------------------------------------------------------------
(* get_all_players *)

Truthy(text) == text # <<>>

\* FROM player_stats s JOIN players p ON p.id = s.player_id WHERE ...
\* as pairs of a rowid of player_stats and a row of players
Selected(pl, st, player_id, byDate, iso) ==
    {<<i, p>> \in (1..Len(st)) \X pl :
        /\ p.id = st[i].player_id
        /\ (player_id.given /\ player_id.val # "" => p.id = player_id.val)
        /\ (byDate => st[i].date = iso)}

\* ORDER BY s.date DESC: every order of the selected rows in which no row
\* comes before one of a greater date text; a first row is one of the
\* greatest date, and the rest follow in such an order
RECURSIVE Orders(_, _)
Orders(sel, st) ==
    IF sel = {} THEN {<<>>}
    ELSE UNION {{<<x>> \o o : o \in Orders(sel \ {x}, st)} :
                   x \in {y \in sel : \A z \in sel :
                             ~TextLess(st[y[1]].date, st[z[1]].date)}}

\* the date of a result row: DD/MM/YYYY, or the stored text when it does
\* not parse
DateOut(text, pad) ==
    LET dt == StrptimeYMD(text)
    IN IF dt.ok THEN StrftimeDMY(dt, pad) ELSE text

StoredDates == {YmdTable[pad][dt] : pad \in BOOLEAN, dt \in KnownDates}

OutDateTable == [pad \in BOOLEAN |-> [t \in StoredDates |-> DateOut(t, pad)]]

OutDate(text, bld) ==
    IF text \in StoredDates THEN OutDateTable[bld.padYear][text]
    ELSE DateOut(text, bld.padYear)

OutRow(pair, st, bld) ==
    LET r == st[pair[1]]
        p == pair[2]
    IN [id |-> p.id, name |-> p.name, specialties |-> p.specialties, age |-> r.age,
        TSI |-> r.TSI, salary |-> r.salary, fitness |-> r.fitness, form |-> r.form,
        skills |-> json_loads(r.skills).map, date |-> OutDate(r.date, bld)]

Rows(rows) == [op |-> "list", kind |-> "rows", text |-> "", rows |-> rows]

\* the whole handler: every outcome it may have (the order of rows of one
\* date is the engine's), each with the connections it leaves open
GetAllPlayers(pl, st, player_id, date, bld) ==
    LET conn == Connect(pl, st)
        byDate == date.given /\ Truthy(date.text)
        dt == strptime_dmy(date.text)
    IN IF byDate /\ ~dt.ok
       THEN {[resp |-> Error("list", "Invalid date format. Use DD/MM/YYYY."),
              leaked |-> Leaked(conn)]}
       ELSE LET iso == IF byDate THEN strftime_ymd(dt, bld.padYear) ELSE <<>>
                sel == Selected(conn.players, conn.stats, player_id, byDate, iso)
            IN {IF \E k \in DOMAIN o : ~json_loads(st[o[k][1]].skills).ok
                THEN [resp |-> [op |-> "list", kind |-> "exception",
                                text |-> "JSONDecodeError", rows |-> <<>>],
                      leaked |-> Leaked(conn)]
                ELSE [resp |-> Rows([k \in DOMAIN o |-> OutRow(o[k], st, bld)]),
                      leaked |-> Leaked(Close(conn))] : o \in Orders(sel, st)}

---------------------------------------------------------------------------
(* The service *)

NoResp == [op |-> "none", kind |-> "none", text |-> "", rows |-> <<>>]

Idle == [pc |-> "idle"]

\* init_db and add_age_to_stats_if_missing on a fresh file: two empty tables
Init ==
    /\ players = {}
    /\ stats = <<>>
    /\ openConns = 0
    /\ resp = NoResp
    /\ build \in Builds
    /\ tx = Idle
    /\ hist = <<>>

Saved(player_id, body) == [id |-> player_id, body |-> body]

\* POST /players/{player_id} with a body of the given set, as one step
save_player(bodies) ==
    \E player_id \in Ids, body \in bodies, now \in Clock :
        \E out \in {SavePlayer(players, stats, player_id, body, now, fault, build) :
                       fault \in Faults} :
           /\ tx = Idle
           /\ Len(out.stats) <= MaxStats
           /\ openConns + out.leaked <= MaxOpenConns
           /\ players' = out.players
           /\ stats' = out.stats
           /\ openConns' = openConns + out.leaked
           /\ resp' = out.resp
           /\ hist' = IF out.resp.kind = "message"
                      THEN Append(hist, Saved(player_id, body)) ELSE hist
           /\ UNCHANGED <<build, tx>>

\* GET /players with parameters of the given sets; it runs in a worker
\* thread, at any moment of a Save, and its SELECT reads what is committed
get_all_players(ids, dates) ==
    \E player_id \in ids, date \in dates :
        \E out \in GetAllPlayers(players, stats, player_id, date, build) :
            /\ openConns + out.leaked <= MaxOpenConns
            /\ openConns' = openConns + out.leaked
            /\ resp' = out.resp
            /\ tx' = IF tx.pc = "idle" THEN tx ELSE [tx EXCEPT !.seen = TRUE]
            /\ UNCHANGED <<players, stats, build, hist>>

Save == save_player(Bodies)

List == get_all_players(IdParams, DateParams)

Next == Save \/ List

Spec == Init /\ [][Next]_vars

SaveWide == save_player(WideBodies)

ListWide == get_all_players(IdParams, WideDateParams)

NextWide == SaveWide \/ ListWide

SpecWide == Init /\ [][NextWide]_vars

---------------------------------------------------------------------------
(* save_player statement by statement, with get_all_players in between     *)

\* the statement that has not run yet at each point of the transaction
Pending == [connected |-> "upsert", upserted |-> "insert", inserted |-> "commit"]

\* the connection of the Save in progress
TxConn(t) == Transaction(Connect(t.base.players, t.base.stats), t.player_id, t.body,
                         t.now, Pending[t.pc], build)

\* lines 87-97: the body is refused before any connection is opened
save_refused ==
    \E player_id \in Ids, body \in Bodies, now \in Clock :
        /\ tx = Idle
        /\ ~DecodedSkills(body).ok \/ ~Player(body, build)
        /\ resp' = SavePlayer(players, stats, player_id, body, now, "none", build).resp
        /\ UNCHANGED <<players, stats, openConns, build, tx, hist>>

\* lines 97-106: the body is accepted and the connection opened
save_connect ==
    \E player_id \in Ids, body \in Bodies, now \in Clock :
        /\ tx = Idle
        /\ DecodedSkills(body).ok /\ Player(body, build)
        /\ Len(stats) < MaxStats
        /\ tx' = [pc |-> "connected", player_id |-> player_id, body |-> body,
                  now |-> now, base |-> [players |-> players, stats |-> stats],
                  seen |-> FALSE]
        /\ UNCHANGED <<players, stats, openConns, resp, build, hist>>

\* lines 109-134: the next INSERT runs on the connection
save_execute ==
    /\ tx.pc \in {"connected", "upserted"}
    /\ tx' = [tx EXCEPT !.pc = IF tx.pc = "connected" THEN "upserted" ELSE "inserted"]
    /\ \E file \in {Durable(TxConn(tx'), players, stats)} :
          players' = file.players /\ stats' = file.stats
    /\ UNCHANGED <<openConns, resp, build, hist>>

\* lines 136-137 and 142-144: commit, the success message, close
save_commit ==
    /\ tx.pc = "inserted"
    /\ \E conn \in {Close(Commit(TxConn(tx)))} :
          /\ players' = Durable(conn, players, stats).players
          /\ stats' = Durable(conn, players, stats).stats
          /\ openConns' = openConns + Leaked(conn)
    /\ resp' = Message("save", tx.body.name)
    /\ hist' = Append(hist, Saved(tx.player_id, tx.body))
    /\ tx' = Idle
    /\ UNCHANGED build

\* lines 139-144: the pending statement raises; the error object, close
save_raise ==
    /\ tx.pc \in {"connected", "upserted", "inserted"}
    /\ \E conn \in {Close(TxConn(tx))} :
          /\ players' = Durable(conn, players, stats).players
          /\ stats' = Durable(conn, players, stats).stats
          /\ openConns' = openConns + Leaked(conn)
    /\ resp' = Error("save", "sqlite3 error")
    /\ tx' = Idle
    /\ UNCHANGED <<build, hist>>

NextTx == save_refused \/ save_connect \/ save_execute \/ save_commit \/ save_raise
          \/ List

SpecTx == Init /\ [][NextTx]_vars

---------------------------------------------------------------------------
(* The claims *)

Last(q) == q[Len(q)]

SavedIds == {hist[i].id : i \in 1..Len(hist)}

\* the most recent successful Save of an identity
LatestSave(id) ==
    hist[CHOOSE i \in 1..Len(hist) :
            hist[i].id = id /\ \A j \in 1..Len(hist) : hist[j].id = id => j <= i]

\* C1: after any sequence of successful Saves, players holds exactly one row
\* for each identity saved, with the name and specialties of the most recent
\* successful Save of that identity, and player_stats holds one row for each
\* successful Save.
C1_OneRowPerIdentity ==
    /\ players = {[id |-> id, name |-> LatestSave(id).body.name,
                   specialties |-> LatestSave(id).body.specialties] : id \in SavedIds}
    /\ Cardinality(players) = Cardinality(SavedIds)
    /\ Len(stats) = Len(hist)

\* one identity saved twice under different names: one row, the later name
C1_Witness ==
    /\ Len(hist) = 2
    /\ hist[1].id = hist[2].id
    /\ hist[1].body.name # hist[2].body.name
    /\ Cardinality(players) = 1
    /\ Len(stats) = 2

\* a skills string that json.loads does not turn into a mapping
UndecodableSkills(body) ==
    /\ "skills" \in body.keys
    /\ body.skills.isStr
    /\ ~Loads(body.skills.str).isMap

C7_NoConnectionLeftOpen == openConns = 0

\* C8: every step leaves the stored player_stats rows in place and
\* unchanged, a Save changes at most the players row of the identity it
\* saved, and a List changes neither table.
C8_StatsRowsImmutable ==
    [][/\ Len(stats') >= Len(stats)
       /\ SubSeq(stats', 1, Len(stats)) = stats
       /\ hist' = hist => players' = players /\ stats' = stats
       /\ hist' # hist =>
             /\ \A r \in players : r.id # Last(hist').id => r \in players'
             /\ \A r \in players' : r.id # Last(hist').id => r \in players
             /\ {r.id : r \in players} \subseteq {r.id : r \in players'}
       /\ resp'.op = "list" => players' = players /\ stats' = stats]_vars

\* a second snapshot of an identity and date was added beside the first
C8_Witness ==
    /\ Len(stats) = 2
    /\ stats[1].player_id = stats[2].player_id
    /\ stats[1].date = stats[2].date
    /\ stats[1].age # stats[2].age
    /\ Len(hist) = 2

\* C10: every player_stats row's player_id is the id of a players row, and
\* an unfiltered List returns one result row for each player_stats row.
C10_JoinDropsNothing ==
    /\ \A i \in 1..Len(stats) : \E p \in players : p.id = stats[i].player_id
    /\ \A out \in GetAllPlayers(players, stats, Absent, NoDateParam, build) :
          out.resp.kind = "rows" /\ Len(out.resp.rows) = Len(stats)

\* snapshots of two identities are stored and a List has returned them all
C10_Witness ==
    /\ Len(stats) = 2
    /\ stats[1].player_id # stats[2].player_id
    /\ resp.op = "list" /\ resp.kind = "rows"
    /\ Len(resp.rows) = 2

\* a text written DD/MM/YYYY that names a calendar date
IsDDMMYYYY(t) ==
    /\ Len(t) = 10
    /\ t[3] = "/" /\ t[6] = "/"
    /\ \A i \in {1, 2, 4, 5, 7, 8, 9, 10} : IsDigit(t[i])
    /\ StrptimeDMY(t).ok

\* the mapping a body gives for skills
SavedSkills(body) ==
    IF body.skills.isStr THEN Loads(body.skills.str).map ELSE body.skills.map

\* the result row that gives back what a Save was given
Echo(h) ==
    [id |-> h.id, name |-> h.body.name, specialties |-> h.body.specialties,
     age |-> h.body.age, TSI |-> h.body.TSI, salary |-> h.body.salary,
     fitness |-> h.body.fitness, form |-> h.body.form,
     skills |-> SavedSkills(h.body), date |-> h.body.date.text]

HasDate(body) == "date" \in body.keys /\ ~body.date.isNull

\* C2: after one successful Save with a valid DD/MM/YYYY date into an empty
\* store, a List without filters returns exactly one row, which gives back
\* the saved id, name, specialties, age, TSI, salary, fitness, form, the
\* saved skills mapping and the very date string.
C2_SaveThenListRoundTrip ==
    (Len(hist) = 1 /\ HasDate(hist[1].body) /\ IsDDMMYYYY(hist[1].body.date.text)) =>
        \A out \in GetAllPlayers(players, stats, Absent, NoDateParam, build) :
            out.resp = Rows(<<Echo(hist[1])>>)

\* the calendar date a result row's date text names, DD/MM/YYYY or, where
\* the stored text came back as it was, year-month-day
ReadDate(t) ==
    IF StrptimeDMY(t).ok THEN StrptimeDMY(t)
    ELSE LET s == SepAt(t, "-") IN
         IF Cardinality(s) # 2 THEN NoDate
         ELSE LET i == CHOOSE a \in s : \A b \in s : a <= b
                  j == CHOOSE a \in s : \A b \in s : a >= b
                  yf == SubSeq(t, 1, i - 1)
                  mf == SubSeq(t, i + 1, j - 1)
                  df == SubSeq(t, j + 1, Len(t))
              IN IF /\ Len(yf) \in 1..4 /\ AllDigits(yf) /\ NumVal(yf) >= 1
                    /\ MonthField(mf) /\ DayField(df)
                 THEN Calendar(NumVal(yf), NumVal(mf), DayVal(df))
                 ELSE NoDate

Later(a, b) ==
    \/ a.y > b.y
    \/ a.y = b.y /\ a.m > b.m
    \/ a.y = b.y /\ a.m = b.m /\ a.d > b.d

SavesOf(id) == {i \in 1..Len(hist) : hist[i].id = id}

SavedDate(i) == StrptimeDMY(hist[i].body.date.text)

\* C3: when the successful Saves of an identity had pairwise distinct valid
\* dates, List filtered by that identity returns one row for each of them
\* and none of another identity, each row's date later than the next row's.
C3_ListByIdentityNewestFirst ==
    \A id \in Ids :
        (/\ SavesOf(id) # {}
         /\ \A i \in SavesOf(id) :
                HasDate(hist[i].body) /\ IsDDMMYYYY(hist[i].body.date.text)
         /\ \A i, j \in SavesOf(id) : i # j => SavedDate(i) # SavedDate(j)) =>
            \A out \in GetAllPlayers(players, stats, [given |-> TRUE, val |-> id],
                                     NoDateParam, build) :
                /\ out.resp.kind = "rows"
                /\ Len(out.resp.rows) = Cardinality(SavesOf(id))
                /\ \A k \in DOMAIN out.resp.rows : out.resp.rows[k].id = id
                /\ {ReadDate(out.resp.rows[k].date) : k \in DOMAIN out.resp.rows}
                       = {SavedDate(i) : i \in SavesOf(id)}
                /\ \A k \in 1..(Len(out.resp.rows) - 1) :
                      Later(ReadDate(out.resp.rows[k].date),
                            ReadDate(out.resp.rows[k + 1].date))

\* a body that is well formed but for its date
WellFormedButDate(body) ==
    /\ (Fields \ {"date"}) \subseteq body.keys
    /\ IF body.skills.isStr THEN Loads(body.skills.str).isMap ELSE TRUE

\* a date that is missing, null or no day/month/year
UnparsableDate(body) == ~HasDate(body) \/ ~StrptimeDMY(body.date.text).ok

\* C5: a Save of a well-formed body whose date is missing or does not parse
\* as day/month/year returns the success message and appends a row whose
\* date is the current date, year-month-day.
C5_BadDateFallsBackToToday ==
    \A player_id \in Ids, body \in Bodies \cup WideBodies, now \in Clock :
        (WellFormedButDate(body) /\ UnparsableDate(body)) =>
            \A out \in {SavePlayer(players, stats, player_id, body, now, "none", build)} :
                /\ out.resp = Message("save", body.name)
                /\ Len(out.stats) = Len(stats) + 1
                /\ Last(out.stats).date = StrftimeYMD(now, TRUE)

\* C6: a List whose date filter is given and does not parse as DD/MM/YYYY
\* returns one error object and no rows, with or without an identity
\* filter, whatever the store holds.
C6_BadDateFilterIsAnError ==
    \A player_id \in IdParams, date \in WideDateParams :
        (date.given /\ ~StrptimeDMY(date.text).ok) =>
            \A out \in GetAllPlayers(players, stats, player_id, date, build) :
                out.resp.kind = "error" /\ out.resp.rows = <<>>

\* what a List may return of a store
ListsOf(pl, st) ==
    UNION {{out.resp : out \in GetAllPlayers(pl, st, player_id, date, build)} :
              player_id \in IdParams, date \in DateParams}

\* C9: both tables change only at the commit of a Save, and then together:
\* the players row of the saved identity and one new player_stats row of
\* it; a step that returns a Save's error object changes neither table; a
\* List that runs during a Save returns what it would have returned before
\* that Save began.
C9_SaveAllOrNothing ==
    [][/\ (players' # players \/ stats' # stats) =>
             /\ tx.pc = "inserted" /\ tx'.pc = "idle"
             /\ resp' = Message("save", tx.body.name)
             /\ Len(stats') = Len(stats) + 1
             /\ SubSeq(stats', 1, Len(stats)) = stats
             /\ Last(stats').player_id = tx.player_id
             /\ [id |-> tx.player_id, name |-> tx.body.name,
                 specialties |-> tx.body.specialties] \in players'
       /\ (resp'.op = "save" /\ resp'.kind = "error") =>
             players' = players /\ stats' = stats
       /\ (tx.pc # "idle" /\ tx'.pc # "idle" /\ resp' # resp) =>
             resp' \in ListsOf(tx.base.players, tx.base.stats)]_vars

\* a List has returned rows while a Save was between its two INSERTs, the
\* Save of an identity that has a snapshot already, under another name
C9_Witness ==
    /\ tx.pc = "upserted"
    /\ tx.seen
    /\ resp.op = "list" /\ resp.kind = "rows" /\ Len(resp.rows) >= 1
    /\ \E r \in players : r.id = tx.player_id /\ r.name # tx.body.name

=============================================================================
